---------------------------- MODULE Spec2Model ----------------------------
(***************************************************************************)
(* A model of the EPD2 e-paper driver (Sketches/libraries/EPD2/EPD2.cpp).  *)
(*                                                                         *)
(* The driver object (size, status, temperature_offset, compensation) and  *)
(* the hardware it drives (control pins, the SPI bus) are the state.  The  *)
(* calls the driver makes on the transport (digitalWrite, delay, SPI_on,   *)
(* SPI_off, SPI_send, SPI_read, line) are recorded, in order, in `log`,    *)
(* which is restarted at the entry of every public operation.              *)
(*                                                                         *)
(* Seven specifications share the variables:                               *)
(*   Spec       the power sequencer: begin(), end(), power_off(), and the  *)
(*              other public operations at call granularity;               *)
(*   SpecTimed  frame_fixed_timed(), one step per millis() read and per    *)
(*              scanline;                                                  *)
(*   SpecSweep  frame_fixed_13() / frame_data_13(), one step per inner     *)
(*              loop iteration;                                            *)
(*   SpecStage2 frame_stage2(), one step per frame_fixed_timed() call and  *)
(*              per pass over the display;                                 *)
(*   SpecLine   line(), one call for each of a set of arguments, the log   *)
(*              holding every SPI transfer of the call;                    *)
(*   SpecBusy   line(), one step per transfer and per poll of the busy     *)
(*              pin;                                                       *)
(*   SpecBegin  begin() and power_off() alone, with the progress of        *)
(*              sequential code (weak fairness of their steps).            *)
(***************************************************************************)
EXTENDS Integers, Sequences, FiniteSets, TLC

VARIABLES
    size,               \* EPD_Class::size
    status,             \* EPD_Class::status
    temperature_offset, \* EPD_Class::temperature_offset
    compensation,       \* EPD_Class::compensation (the band pointed to)
    pins,               \* level of every control pin the driver writes
    spi,                \* TRUE while the SPI bus is enabled
    pc,                 \* position of the running operation, "idle" between calls
    log,                \* transport calls of the current (or last) operation
    cog_reads,          \* begin(): what the COG ID reads returned, in order
    cog_id,             \* begin(): local cog_id
    broken_panel,       \* begin(): local broken_panel
    dc_state,           \* begin() / end(): local dc_state
    dc_ok,              \* begin(): local dc_ok
    i,                  \* loop counter i of begin(), power_off()
    busy_polls,         \* begin(): number of busy polls that read HIGH (capped)
    stage_time,         \* frame_fixed_timed(): parameter/local stage_time
    fixed_value,        \* frame_fixed_timed(): parameter fixed_value
    line,               \* frame_fixed_timed(): loop variable line (uint8_t)
    pass_lines,         \* frame_fixed_timed(): line numbers written in the current pass
    t_start,            \* frame_fixed_timed(): local t_start
    t_end,              \* frame_fixed_timed(): local t_end
    clock,              \* the millis() counter
    passes,             \* frame_fixed_timed(): completed passes (capped)
    sweep,              \* frame_*_13(): parameters and locals (value, stage, repeat,
                        \* step, block, total_lines, n, line, offset)
    visited,            \* frame_*_13(): line indexes passed to line() so far
    line_call,          \* arguments of the most recent line() call of a frame operation,
                        \* or of the line() call the sketch makes
    scan_pos            \* line(): local scan_pos

vars == << size, status, temperature_offset, compensation, pins, spi, pc, log,
           cog_reads, cog_id, broken_panel, dc_state, dc_ok, i, busy_polls,
           stage_time, fixed_value, line, pass_lines, t_start, t_end, clock, passes,
           sweep, visited, line_call, scan_pos >>

driverVars == << size, status, temperature_offset, compensation >>
hwVars     == << pins, spi >>
beginVars  == << cog_reads, cog_id, broken_panel, dc_state, dc_ok, i, busy_polls >>
timedVars  == << stage_time, fixed_value, line, pass_lines, t_start, t_end, clock, passes >>
sweepVars  == << sweep, visited >>

-----------------------------------------------------------------------------
(* Bounds of the model *)

\* HIGH readings of the busy pin that are recorded before the wait saturates
MaxBusyPolls == 1

-----------------------------------------------------------------------------
(* Values *)

LOW  == "LOW"
HIGH == "HIGH"

Sizes == {"EPD_1_44", "EPD_2_0", "EPD_2_7", "EPD_other"}

Statuses == {"EPD_OK", "EPD_UNSUPPORTED_COG", "EPD_PANEL_BROKEN", "EPD_DC_FAILED"}

\* what the field status holds when the storage of the object held a bit
\* pattern that is no enumerator of EPD_error (0x7f7f7f7f, -1, ...): the
\* driver only assigns status, so one value stands for all of them
NoEnumerator == "no_enumerator"

\* the constructor does not assign status: after it the field holds whatever
\* the storage held
StatusesAfterConstruction == Statuses \cup {NoEnumerator}

Stages == {"EPD_inverse", "EPD_normal"}

PinNames == {"RESET", "PANEL_ON", "DISCHARGE", "BORDER", "EPD_CS"}

\* bitwise AND of two naturals
RECURSIVE BitAnd(_, _)
BitAnd(a, b) ==
    IF a = 0 \/ b = 0 THEN 0
    ELSE (a % 2) * (b % 2) + 2 * BitAnd(a \div 2, b \div 2)

-----------------------------------------------------------------------------
(* Transport calls, as recorded in log *)

Call(f)        == << "call", f >>
Pin(p, v)      == << "digitalWrite", << p, v >> >>
Delay_ms(ms)   == << "Delay_ms", ms >>
Delay_us(us)   == << "Delay_us", us >>
SPI_on         == << "SPI", "on" >>
SPI_off        == << "SPI", "off" >>
SPI_send(buf)  == << "SPI_send", buf >>
SPI_read(buf)  == << "SPI_read", buf >>
Line(l, data, fixed, progmem, stage, border) ==
    << "line", [line |-> l, data |-> data, fixed_value |-> fixed,
                read_progmem |-> progmem, stage |-> stage, border_byte |-> border] >>

\* digitalRead(EPD_Pin_BUSY) has returned `level`
BusyRead(level) == << "digitalRead", << "BUSY", level >> >>

\* the argument an operation is called with
Argument(v) == << "argument", v >>

\* SPI_send(CU8(0x70, reg), 2); SPI_send(CU8(0x72, val), 2)
RegWrite(reg, val) == << SPI_send(<< 112, reg >>), SPI_send(<< 114, val >>) >>

\* SPI_send(CU8(0x70, 0x0f), 2); SPI_read(CU8(0x73, 0x00), 2)
StatusRead == << SPI_send(<< 112, 15 >>), SPI_read(<< 115, 0 >>) >>


-----------------------------------------------------------------------------
(* Effect of the recorded transport calls on the hardware state *)

\* SPI_send / SPI_read drop chip-select and raise it again; line() ends with
\* SPI_send and SPI_off
PinsAfterEvent(p, e) ==
    IF e[1] = "digitalWrite" THEN [p EXCEPT ![e[2][1]] = e[2][2]]
    ELSE IF e[1] \in {"SPI_send", "SPI_read", "line"} THEN [p EXCEPT !["EPD_CS"] = HIGH]
    ELSE p

SpiAfterEvent(s, e) ==
    IF e[1] = "SPI" THEN e[2] = "on"
    ELSE IF e[1] = "line" THEN FALSE
    ELSE s

RECURSIVE PinsAfter(_, _)
PinsAfter(p, events) ==
    IF events = << >> THEN p
    ELSE PinsAfter(PinsAfterEvent(p, Head(events)), Tail(events))

RECURSIVE SpiAfter(_, _)
SpiAfter(s, events) ==
    IF events = << >> THEN s
    ELSE SpiAfter(SpiAfterEvent(s, Head(events)), Tail(events))

\* the running operation performs `events`
Emit(events) ==
    /\ log' = log \o events
    /\ pins' = PinsAfter(pins, events)
    /\ spi' = SpiAfter(spi, events)

\* a public operation is entered and performs `events`
Enter(f, events) ==
    /\ pc = "idle"
    /\ log' = << Call(f) >> \o events
    /\ pins' = PinsAfter(pins, events)
    /\ spi' = SpiAfter(spi, events)

\* locals of begin() / end() / power_off() go out of scope on return
ClearLocals ==
    /\ cog_reads' = << >>
    /\ cog_id' = 0
    /\ broken_panel' = 0
    /\ dc_state' = 0
    /\ dc_ok' = FALSE
    /\ i' = 0
    /\ busy_polls' = 0

-----------------------------------------------------------------------------
(* Panel profile: EPD_Class::EPD_Class *)

lines_per_display(sz) == IF sz = "EPD_2_7" THEN 176 ELSE 96

dots_per_line(sz) ==
    IF sz = "EPD_2_0" THEN 200 ELSE IF sz = "EPD_2_7" THEN 264 ELSE 128

bytes_per_line(sz) == dots_per_line(sz) \div 8

bytes_per_scan(sz) == lines_per_display(sz) \div 4

channel_select(sz) ==
    IF sz = "EPD_2_0" THEN << 114, 0, 0, 0, 0, 1, 255, 224, 0 >>
    ELSE IF sz = "EPD_2_7" THEN << 114, 0, 0, 0, 127, 255, 254, 0, 0 >>
    ELSE << 114, 0, 0, 0, 0, 0, 15, 255, 0 >>

-----------------------------------------------------------------------------
(* Compensation: EPD_Class::setFactor *)

Band(r1, s1, b1, r2, t1, t2, r3, s3, b3) ==
    [stage1_repeat |-> r1, stage1_step |-> s1, stage1_block |-> b1,
     stage2_repeat |-> r2, stage2_t1 |-> t1, stage2_t2 |-> t2,
     stage3_repeat |-> r3, stage3_step |-> s3, stage3_block |-> b3]

compensation_144 ==
    << Band(2, 6, 42,   4, 392, 392,   2, 6, 42),
       Band(4, 2, 16,   4, 155, 155,   4, 2, 16),
       Band(4, 2, 16,   4, 155, 155,   4, 2, 16) >>

compensation_200 ==
    << Band(2, 6, 42,   4, 392, 392,   2, 6, 42),
       Band(2, 2, 48,   4, 196, 196,   2, 2, 48),
       Band(4, 2, 48,   4, 196, 196,   4, 2, 48) >>

compensation_270 ==
    << Band(2, 8, 64,   4, 392, 392,   2, 8, 64),
       Band(2, 8, 64,   4, 196, 196,   2, 8, 64),
       Band(4, 8, 64,   4, 196, 196,   4, 8, 64) >>

\* the thresholds taken to belong to the outer bands
TemperatureOffset_exclusive(temperature) ==
    IF temperature <= 10 THEN 0
    ELSE IF temperature >= 40 THEN 2
    ELSE 1

TemperatureOffset(temperature) ==
    IF temperature < 10 THEN 0
    ELSE IF temperature > 40 THEN 2
    ELSE 1

\* the tables are indexed from 0 in the source, sequences from 1 here
CompensationFor(sz, offset) ==
    IF sz = "EPD_2_0" THEN compensation_200[offset + 1]
    ELSE IF sz = "EPD_2_7" THEN compensation_270[offset + 1]
    ELSE compensation_144[offset + 1]

\* default argument of setFactor(), used by the constructor
DefaultTemperature == 25

\* temperatures a caller passes to setFactor()
Temperatures == {-5, 9, 10, 25, 40, 41}

-----------------------------------------------------------------------------
(* Values the simulated controller returns *)

\* bytes an SPI_read can return: 0x00, 0x02, 0x12, 0x40, 0x80, 0xc0
ReadBytes == {0, 2, 18, 64, 128, 192}

\* levels digitalRead(EPD_Pin_BUSY) can return
Levels == {LOW, HIGH}

-----------------------------------------------------------------------------
(* EPD_Class::power_off *)

\* number of discharge pulses
DischargePulses == 10

\* chip-select dropped before the bus is put in its idle state
PowerOffSignals_cs_first ==
    << Call("power_off"),
       Pin("RESET", LOW), Pin("PANEL_ON", LOW), Pin("BORDER", LOW),
       Pin("EPD_CS", LOW),
       SPI_off >>

\* lines 352-358: turn off power and all signals
PowerOffSignals ==
    << Call("power_off"),
       Pin("RESET", LOW), Pin("PANEL_ON", LOW), Pin("BORDER", LOW),
       SPI_off,
       Pin("EPD_CS", LOW) >>

DischargePulse ==
    << Delay_ms(10), Pin("DISCHARGE", HIGH), Delay_ms(10), Pin("DISCHARGE", LOW) >>

\* entry of power_off() up to the pulse loop; the operation at `from` calls it
\* after performing `events`
CallPowerOff(events) ==
    /\ Emit(events \o PowerOffSignals)
    /\ i' = 0
    /\ pc' = "power_off_pulse"

\* one iteration of the pulse loop; power_off() and its caller return after the last
PowerOffPulse ==
    /\ pc = "power_off_pulse"
    /\ i < DischargePulses
    /\ Emit(DischargePulse)
    /\ IF i + 1 < DischargePulses
       THEN /\ i' = i + 1
            /\ pc' = "power_off_pulse"
            /\ UNCHANGED << cog_reads, cog_id, broken_panel, dc_state, dc_ok, busy_polls >>
       ELSE /\ ClearLocals
            /\ pc' = "idle"
    /\ UNCHANGED << driverVars, timedVars, sweepVars, line_call, scan_pos >>

-----------------------------------------------------------------------------
(* EPD_Class::begin *)

\* a retry loop that makes one attempt too many
PumpAttempts_one_more == 4 + 1

\* attempts of the charge pump loop
PumpAttempts == 4

\* the check made on the first read, the second one ignored
CogIdKept_first(first, second) == first

\* the value begin() keeps in cog_id after reading the ID register twice
CogIdKept(first, second) == second

\* 0x02 != (0x0f & cog_id)
CogUnsupported(id) == 2 # BitAnd(15, id)

\* the breakage test made on the DC/DC bit 0x40
PanelBroken_bit6(b) == 0 = BitAnd(64, b)

\* 0x00 == (0x80 & broken_panel)
PanelBroken(b) == 0 = BitAnd(128, b)

\* the DC/DC test made on the breakage bit 0x80
DcReady_bit7(dc) == 128 = BitAnd(128, dc)

\* 0x40 == (0x40 & dc_state)
DcReady(dc) == 64 = BitAnd(64, dc)

BeginPowerUp ==
    << Pin("RESET", LOW), Pin("PANEL_ON", LOW), Pin("DISCHARGE", LOW),
       Pin("BORDER", LOW), Pin("EPD_CS", LOW),
       SPI_on,
       Delay_ms(5), Pin("PANEL_ON", HIGH), Delay_ms(10),
       Pin("RESET", HIGH), Pin("BORDER", HIGH), Pin("EPD_CS", HIGH), Delay_ms(5),
       Pin("RESET", LOW), Delay_ms(5),
       Pin("RESET", HIGH), Delay_ms(5) >>

\* SPI_read(CU8(0x71, 0x00), 2), twice
CogIdReads == << SPI_read(<< 113, 0 >>), SPI_read(<< 113, 0 >>) >>

\* Disable OE, then the breakage readback
BreakageCheck == RegWrite(2, 64) \o StatusRead

\* power saving mode ... driver latch off, Delay_ms(5)
BeginConfigure(sz) ==
    RegWrite(11, 2)
    \o << SPI_send(<< 112, 1 >>), SPI_send(channel_select(sz)) >>
    \o RegWrite(7, 209)
    \o RegWrite(8, 2)
    \o RegWrite(9, 194)
    \o RegWrite(4, 3)
    \o RegWrite(3, 1)
    \o RegWrite(3, 0)
    \o << Delay_ms(5) >>

\* one pass of the charge pump loop, up to and including the DC/DC readback
PumpCycle ==
    RegWrite(5, 1) \o << Delay_ms(240) >>
    \o RegWrite(5, 3) \o << Delay_ms(40) >>
    \o RegWrite(5, 15) \o << Delay_ms(40) >>
    \o StatusRead

\* output enable to disable, SPI_off()
BeginFinish == RegWrite(2, 64) \o << SPI_off >>

\* a begin() that keeps the status of the previous session
StatusAtBegin_kept == status

\* line 150: assume ok
StatusAtBegin == "EPD_OK"

\* lines 147-174: status reset and the power up pulse sequence
Begin ==
    /\ Enter("begin", BeginPowerUp)
    /\ status' = StatusAtBegin
    /\ ClearLocals
    /\ pc' = "begin_wait_busy"
    /\ UNCHANGED << size, temperature_offset, compensation, timedVars, sweepVars, line_call, scan_pos >>

\* a wait that gives up after MaxBusyPolls readings of HIGH
BusyWaitOver_timeout(level, polls) == HIGH # level \/ polls >= MaxBusyPolls

\* line 177: the loop is left when HIGH == digitalRead(EPD_Pin_BUSY) is false,
\* however many polls were made
BusyWaitOver(level, polls) == HIGH # level

\* lines 176-179: one poll of the busy pin.  HIGH readings after the first
\* MaxBusyPolls are no longer recorded; the reading that ends the loop is.
BeginWaitBusy ==
    /\ pc = "begin_wait_busy"
    /\ \E level \in Levels :
         IF ~BusyWaitOver(level, busy_polls)
         THEN /\ busy_polls' = IF busy_polls < MaxBusyPolls THEN busy_polls + 1 ELSE busy_polls
              /\ Emit(IF busy_polls < MaxBusyPolls THEN << Delay_us(10) >> ELSE << >>)
              /\ pc' = "begin_wait_busy"
         ELSE /\ busy_polls' = busy_polls
              /\ Emit(<< BusyRead(level) >>)
              /\ pc' = "begin_cog_id"
    /\ UNCHANGED << driverVars, cog_reads, cog_id, broken_panel, dc_state, dc_ok, i,
                    timedVars, sweepVars, line_call, scan_pos >>

\* lines 181-189: read the COG ID twice and check it
BeginCogId ==
    /\ pc = "begin_cog_id"
    /\ \E first \in ReadBytes, second \in ReadBytes :
         /\ cog_reads' = << first, second >>
         /\ cog_id' = CogIdKept(first, second)
    /\ IF CogUnsupported(cog_id')
       THEN /\ status' = "EPD_UNSUPPORTED_COG"
            /\ CallPowerOff(CogIdReads)
       ELSE /\ status' = status
            /\ Emit(CogIdReads)
            /\ i' = i
            /\ pc' = "begin_breakage"
    /\ UNCHANGED << size, temperature_offset, compensation, broken_panel, dc_state, dc_ok,
                    busy_polls, timedVars, sweepVars, line_call, scan_pos >>

\* lines 191-202: disable OE and check breakage
BeginBreakage ==
    /\ pc = "begin_breakage"
    /\ \E r \in ReadBytes : broken_panel' = r
    /\ IF PanelBroken(broken_panel')
       THEN /\ status' = "EPD_PANEL_BROKEN"
            /\ CallPowerOff(BreakageCheck)
            /\ UNCHANGED dc_ok
       ELSE /\ status' = status
            /\ Emit(BreakageCheck \o BeginConfigure(size))
            /\ dc_ok' = FALSE
            /\ i' = 0
            /\ pc' = "begin_pump"
    /\ UNCHANGED << size, temperature_offset, compensation, cog_reads, cog_id, dc_state,
                    busy_polls, timedVars, sweepVars, line_call, scan_pos >>

\* lines 240-266: one iteration of the charge pump loop
BeginPump ==
    /\ pc = "begin_pump"
    /\ i < PumpAttempts
    /\ Emit(PumpCycle)
    /\ \E r \in ReadBytes : dc_state' = r
    /\ IF DcReady(dc_state')
       THEN /\ dc_ok' = TRUE
            /\ i' = i
            /\ pc' = "begin_dc_checked"
       ELSE /\ dc_ok' = dc_ok
            /\ i' = i + 1
            /\ pc' = IF i + 1 < PumpAttempts THEN "begin_pump" ELSE "begin_dc_checked"
    /\ UNCHANGED << driverVars, cog_reads, cog_id, broken_panel, busy_polls,
                    timedVars, sweepVars, line_call, scan_pos >>

\* lines 267-271: no attempt reported the DC/DC ready
BeginDcFailed ==
    /\ pc = "begin_dc_checked"
    /\ ~dc_ok
    /\ status' = "EPD_DC_FAILED"
    /\ CallPowerOff(<< >>)
    /\ UNCHANGED << size, temperature_offset, compensation, cog_reads, cog_id,
                    broken_panel, dc_state, dc_ok, busy_polls, timedVars, sweepVars, line_call, scan_pos >>

\* lines 273-278: output enable to disable, bus off, return
BeginDone ==
    /\ pc = "begin_dc_checked"
    /\ dc_ok
    /\ Emit(BeginFinish)
    /\ ClearLocals
    /\ pc' = "idle"
    /\ UNCHANGED << driverVars, timedVars, sweepVars, line_call, scan_pos >>

-----------------------------------------------------------------------------
(* EPD_Class::end *)

\* default of line()'s border_byte parameter (declared in EPD2.h)
DefaultBorderByte == 0

\* the sentinel line number 0x7fff
NoLine == 32767

\* the absent data pointer of line(); << pos >> stands for &image[pos * bytes_per_line]
NoData == << >>

\* the size test inverted: the border pulse for every size but 2.7"
EndDummy_inverted(sz) ==
    IF sz # "EPD_2_7"
    THEN << Delay_ms(25), Pin("BORDER", LOW), Delay_ms(250), Pin("BORDER", HIGH) >>
    ELSE << Line(NoLine, NoData, 0, FALSE, "EPD_normal", 255), Delay_ms(40),
            Line(NoLine, NoData, 0, FALSE, "EPD_normal", 170), Delay_ms(200),
            Line(NoLine, NoData, 0, FALSE, "EPD_normal", DefaultBorderByte), Delay_ms(25) >>

\* lines 283-300: dummy line and border
EndDummy(sz) ==
    IF sz = "EPD_2_7"
    THEN << Delay_ms(25), Pin("BORDER", LOW), Delay_ms(250), Pin("BORDER", HIGH) >>
    ELSE << Line(NoLine, NoData, 0, FALSE, "EPD_normal", 255), Delay_ms(40),
            Line(NoLine, NoData, 0, FALSE, "EPD_normal", 170), Delay_ms(200),
            Line(NoLine, NoData, 0, FALSE, "EPD_normal", DefaultBorderByte), Delay_ms(25) >>

\* the Vcom pump switched off before the positive pump
EndShutdown_vcom_first ==
    RegWrite(3, 1)
    \o RegWrite(2, 5)
    \o RegWrite(5, 2)
    \o RegWrite(5, 14)
    \o RegWrite(5, 0)
    \o RegWrite(7, 13)
    \o RegWrite(4, 131)
    \o << Delay_ms(120) >>
    \o RegWrite(4, 0)

\* lines 313-345: latch reset ... discharge internal off
EndShutdown ==
    RegWrite(3, 1)
    \o RegWrite(2, 5)
    \o RegWrite(5, 14)
    \o RegWrite(5, 2)
    \o RegWrite(5, 0)
    \o RegWrite(7, 13)
    \o RegWrite(4, 131)
    \o << Delay_ms(120) >>
    \o RegWrite(4, 0)

\* lines 281-306: dummy line / border, bus on, DC/DC readback
End ==
    /\ Enter("end", EndDummy(size) \o << SPI_on >> \o StatusRead)
    /\ \E r \in ReadBytes : dc_state' = r
    /\ pc' = "end_dc_checked"
    /\ UNCHANGED << driverVars, cog_reads, cog_id, broken_panel, dc_ok, i, busy_polls,
                    timedVars, sweepVars, line_call, scan_pos >>

\* lines 307-311: the DC/DC is not ready
EndDcFailed ==
    /\ pc = "end_dc_checked"
    /\ ~DcReady(dc_state)
    /\ status' = "EPD_DC_FAILED"
    /\ CallPowerOff(<< >>)
    /\ UNCHANGED << size, temperature_offset, compensation, cog_reads, cog_id,
                    broken_panel, dc_state, dc_ok, busy_polls, timedVars, sweepVars, line_call, scan_pos >>

\* lines 313-347: orderly shutdown, then power_off()
EndPowerDown ==
    /\ pc = "end_dc_checked"
    /\ DcReady(dc_state)
    /\ CallPowerOff(EndShutdown)
    /\ UNCHANGED << driverVars, cog_reads, cog_id, broken_panel, dc_state, dc_ok,
                    busy_polls, timedVars, sweepVars, line_call, scan_pos >>

-----------------------------------------------------------------------------
(* The other public operations, at call granularity *)

\* EPD_Class::setFactor
SetFactor ==
    /\ \E temperature \in Temperatures :
         /\ Enter("setFactor", << Argument(temperature) >>)
         /\ temperature_offset' = TemperatureOffset(temperature)
         /\ compensation' = CompensationFor(size, temperature_offset')
    /\ UNCHANGED << size, status, pc, beginVars, timedVars, sweepVars, line_call, scan_pos >>

\* line() calls a sketch makes directly
DirectLines ==
    { Line(0, NoData, 255, FALSE, "EPD_normal", DefaultBorderByte),
      Line(NoLine, NoData, 0, FALSE, "EPD_normal", 255),
      Line(5, << 5 >>, 0, TRUE, "EPD_inverse", DefaultBorderByte) }

\* EPD_Class::line, called by the sketch
CallLine ==
    /\ \E l \in DirectLines : Enter("line", << l >>)
    /\ UNCHANGED << driverVars, pc, beginVars, timedVars, sweepVars, line_call, scan_pos >>

\* a frame operation, whose last action is the return of a line() call
FrameOps == {"frame_fixed_13", "frame_data_13", "frame_stage2"}

\* EPD_Class::frame_fixed_13, frame_data_13, frame_stage2 seen from the caller:
\* the scanline writes they make are what SpecSweep and SpecTimed model
CallFrame ==
    /\ pc = "idle"
    /\ \E f \in FrameOps : log' = << Call(f) >>
    /\ pins' = [pins EXCEPT !["EPD_CS"] = HIGH]
    /\ spi' = FALSE
    /\ UNCHANGED << driverVars, pc, beginVars, timedVars, sweepVars, line_call, scan_pos >>

-----------------------------------------------------------------------------
(* The power sequencer *)

\* after construction: setFactor() has run with its default and no operation
\* is running
Constructed ==
    /\ size \in Sizes
    /\ temperature_offset = TemperatureOffset(DefaultTemperature)
    /\ compensation = CompensationFor(size, temperature_offset)
    /\ pc = "idle"
    /\ log = << Call("EPD_Class") >>
    /\ cog_reads = << >>
    /\ cog_id = 0
    /\ broken_panel = 0
    /\ dc_state = 0
    /\ dc_ok = FALSE
    /\ i = 0
    /\ busy_polls = 0
    /\ stage_time = 0
    /\ fixed_value = 0
    /\ line = 0
    /\ pass_lines = << >>
    /\ t_start = 0
    /\ t_end = 0
    /\ passes = 0
    /\ sweep = << >>
    /\ visited = {}
    /\ line_call = << >>
    /\ scan_pos = 0

\* the constructor does not initialise status and writes no pin: the pins are
\* as the reset of the microcontroller leaves them
Init ==
    /\ Constructed
    /\ status \in StatusesAfterConstruction
    /\ pins = [p \in PinNames |-> LOW]
    /\ spi = FALSE
    /\ clock = 0

Next ==
    \/ Begin
    \/ BeginWaitBusy
    \/ BeginCogId
    \/ BeginBreakage
    \/ BeginPump
    \/ BeginDcFailed
    \/ BeginDone
    \/ End
    \/ EndDcFailed
    \/ EndPowerDown
    \/ PowerOffPulse
    \/ SetFactor
    \/ CallLine
    \/ CallFrame

Spec == Init /\ [][Next]_vars

\* begin() alone, with the progress of sequential code: every step of begin()
\* and of power_off() that can be taken is taken.  Nothing is assumed of the
\* busy pin: a poll is made, what it reads is up to the controller.
NextBegin ==
    \/ Begin
    \/ BeginWaitBusy
    \/ BeginCogId
    \/ BeginBreakage
    \/ BeginPump
    \/ BeginDcFailed
    \/ BeginDone
    \/ PowerOffPulse

SpecBegin ==
    /\ Init
    /\ [][NextBegin]_vars
    /\ WF_vars(BeginCogId)
    /\ WF_vars(BeginBreakage)
    /\ WF_vars(BeginPump)
    /\ WF_vars(BeginDcFailed)
    /\ WF_vars(BeginDone)
    /\ WF_vars(PowerOffPulse)

-----------------------------------------------------------------------------
(* EPD_Class::frame_fixed_timed *)

\* width in bits of unsigned long / long, the type of millis() and stage_time
ClockBits == 4

\* completed passes counted before the counter saturates
MaxPasses == 2

Modulus == 2 ^ ClockBits

ULONG_MAX == Modulus - 1

\* conversion of an unsigned long to long (two's complement)
ToLong(u) == IF u >= Modulus \div 2 THEN u - Modulus ELSE u

\* lines 385-389: the amount subtracted from stage_time, in unsigned long arithmetic
Elapsed(ts, te) ==
    IF te > ts
    THEN (te - ts) % Modulus
    ELSE (ts - te + 1 + ULONG_MAX) % Modulus

\* stage_time -= elapsed: the long is converted to unsigned long and back
StageTimeAfter(st, ts, te) == ToLong((st - Elapsed(ts, te)) % Modulus)

\* default of line()'s stage parameter (declared in EPD2.h)
DefaultStage == "EPD_normal"

\* the state a successful begin() leaves: status Ok, panel powered, bus off
Ready ==
    /\ status = "EPD_OK"
    /\ pins = PinsAfter([p \in PinNames |-> LOW], BeginPowerUp)
    /\ spi = FALSE

\* fixed values and durations frame_fixed_timed() is called with
FixedValues == {255, 170}

StageTimes == {-2, 0, 1, 4}

\* milliseconds that pass between two reads of millis()
ClockSteps == {0, 2, 3, Modulus - 2}

\* readings of millis() when frame_fixed_timed() is entered
ClockStarts == {0, Modulus - 3}

\* a while loop in place of the do-while: the test is made before the first pass
FirstPass_tested(st) == IF st > 0 THEN "fft_pass" ELSE "idle"

\* do { ... } while: the first pass is entered whatever stage_time is
FirstPass(st) == "fft_pass"

\* while (stage_time > 0)
NextPass(st) == IF st > 0 THEN "fft_pass" ELSE "idle"

\* for (uint8_t line = 0; line < lines_per_display; ++line)
MoreLines(l, sz) == l < lines_per_display(sz)

\* entry of frame_fixed_timed(fixed_value, stage_time)
FrameFixedTimed ==
    /\ pc = "idle"
    /\ \E v \in FixedValues, st \in StageTimes :
         /\ fixed_value' = v
         /\ stage_time' = st
    /\ log' = << Call("frame_fixed_timed") >>
    /\ passes' = 0
    /\ line' = 0
    /\ pass_lines' = << >>
    /\ t_start' = 0
    /\ t_end' = 0
    /\ pc' = FirstPass(stage_time')
    /\ UNCHANGED << driverVars, hwVars, beginVars, clock, sweepVars, line_call, scan_pos >>

\* line 380: t_start = millis(), and the line loop is entered
FftPassStart ==
    /\ pc = "fft_pass"
    /\ \E d \in ClockSteps : clock' = (clock + d) % Modulus
    /\ t_start' = clock'
    /\ t_end' = 0
    /\ line' = 0
    /\ pass_lines' = << >>
    /\ pc' = "fft_line"
    /\ UNCHANGED << driverVars, hwVars, log, beginVars, stage_time, fixed_value, passes,
                    sweepVars, line_call, scan_pos >>

\* lines 381-383: one iteration of the line loop
FftLine ==
    /\ pc = "fft_line"
    /\ MoreLines(line, size)
    /\ line_call' = << Line(line, NoData, fixed_value, FALSE, DefaultStage, DefaultBorderByte) >>
    /\ pass_lines' = Append(pass_lines, line)
    /\ pins' = PinsAfter(pins, line_call')
    /\ spi' = SpiAfter(spi, line_call')
    /\ line' = (line + 1) % 256
    /\ UNCHANGED << driverVars, pc, log, beginVars, stage_time, fixed_value, t_start, t_end,
                    clock, passes, sweepVars, scan_pos >>

\* lines 384-390: t_end = millis(), the elapsed time is subtracted, loop test
FftPassEnd ==
    /\ pc = "fft_line"
    /\ ~MoreLines(line, size)
    /\ \E d \in ClockSteps : clock' = (clock + d) % Modulus
    /\ t_end' = clock'
    /\ stage_time' = StageTimeAfter(stage_time, t_start, t_end')
    /\ passes' = IF passes < MaxPasses THEN passes + 1 ELSE passes
    /\ pc' = NextPass(stage_time')
    /\ UNCHANGED << driverVars, hwVars, log, beginVars, fixed_value, line, pass_lines,
                    t_start, sweepVars, line_call, scan_pos >>

InitTimed ==
    /\ Constructed
    /\ Ready
    /\ clock \in ClockStarts

NextTimed ==
    \/ FrameFixedTimed
    \/ FftPassStart
    \/ FftLine
    \/ FftPassEnd

SpecTimed == InitTimed /\ [][NextTimed]_vars

-----------------------------------------------------------------------------
(* EPD_Class::frame_fixed_13 and EPD_Class::frame_data_13 *)

\* fixed values frame_fixed_13() is called with
SweepValues == {255}

\* lines 400-408 / 435-443: the triple of the stage
StageRepeat(band, stage) ==
    IF stage = "EPD_inverse" THEN band.stage1_repeat ELSE band.stage3_repeat

StageStep(band, stage) ==
    IF stage = "EPD_inverse" THEN band.stage1_step ELSE band.stage3_step

StageBlock(band, stage) ==
    IF stage = "EPD_inverse" THEN band.stage1_block ELSE band.stage3_block

\* for (int line = step - block; ...
FirstLine(step, block) == step - block

\* ... line < total_lines + step; ...
MoreBlocks(l, total_lines, step) == l < total_lines + step

\* pos < 0 || pos > total_lines
OutOfRange(pos, total_lines) == pos < 0 \/ pos > total_lines

\* the last pass taken to be pass number repeat
Settle_off_by_one(offset, n, repeat) == 0 = offset /\ n = repeat

\* 0 == offset && n == repeat - 1
Settle(offset, n, repeat) == 0 = offset /\ n = repeat - 1

\* line 457 and lines 566 / 605: the index in image of byte b of the scanline
\* line() reads through &image[pos * bytes_per_line]
ImageIndex(pos, b, sz) == pos * bytes_per_line(sz) + b

\* lines 416-423 / 451-458: the line() call made for one (n, line, offset)
SweepCall(sw) ==
    LET pos == sw.line + sw.offset IN
    IF OutOfRange(pos, sw.total_lines)
    THEN Line(NoLine, NoData, 0, FALSE, "EPD_normal", DefaultBorderByte)
    ELSE IF Settle(sw.offset, sw.n, sw.repeat)
    THEN Line(pos, NoData, 0, FALSE, "EPD_normal", DefaultBorderByte)
    ELSE IF sw.f = "frame_fixed_13"
    THEN Line(pos, NoData, sw.value, FALSE, sw.stage, DefaultBorderByte)
    ELSE Line(pos, << pos >>, 0, TRUE, sw.stage, DefaultBorderByte)

\* the loop variables after the increments of the three nested for loops
\* (every band has block > 0, so each block makes at least one call)
SweepAdvance(sw) ==
    IF sw.offset + 1 < sw.block
    THEN [sw EXCEPT !.offset = sw.offset + 1]
    ELSE IF MoreBlocks(sw.line + sw.step, sw.total_lines, sw.step)
    THEN [sw EXCEPT !.line = sw.line + sw.step, !.offset = 0]
    ELSE [sw EXCEPT !.n = sw.n + 1, !.line = FirstLine(sw.step, sw.block), !.offset = 0]

\* entry of frame_fixed_13(value, stage) or frame_data_13(image, stage), up to
\* the first iteration of the inner loop
SweepEnter(f, value, stage) ==
    /\ pc = "idle"
    /\ log' = << Call(f) >>
    /\ sweep' = [f |-> f, value |-> value, stage |-> stage,
                 repeat |-> StageRepeat(compensation, stage),
                 step |-> StageStep(compensation, stage),
                 block |-> StageBlock(compensation, stage),
                 total_lines |-> lines_per_display(size),
                 n |-> 0,
                 line |-> FirstLine(StageStep(compensation, stage),
                                    StageBlock(compensation, stage)),
                 offset |-> 0,
                 call_n |-> 0, call_offset |-> 0, call_pos |-> 0]
    /\ visited' = {}
    /\ line_call' = << >>
    /\ pc' = IF 0 < StageRepeat(compensation, stage) THEN "sweep" ELSE "idle"
    /\ UNCHANGED << driverVars, hwVars, beginVars, timedVars, scan_pos >>

FrameFixed13 ==
    \E value \in SweepValues, stage \in Stages : SweepEnter("frame_fixed_13", value, stage)

\* the image is identified with its scanlines: value is not used
FrameData13 ==
    \E stage \in Stages : SweepEnter("frame_data_13", 0, stage)

\* one iteration of the inner loop: one line() call.  call_n, call_offset and
\* call_pos keep the loop position the call was made at.
SweepLine ==
    /\ pc = "sweep"
    /\ sweep.n < sweep.repeat
    /\ line_call' = << SweepCall(sweep) >>
    /\ visited' = visited \cup {line_call'[1][2].line}
    /\ pins' = PinsAfter(pins, line_call')
    /\ spi' = SpiAfter(spi, line_call')
    /\ sweep' = [SweepAdvance(sweep) EXCEPT !.call_n = sweep.n,
                                            !.call_offset = sweep.offset,
                                            !.call_pos = sweep.line + sweep.offset]
    /\ pc' = IF sweep'.n < sweep.repeat THEN "sweep" ELSE "idle"
    /\ UNCHANGED << driverVars, log, beginVars, timedVars, scan_pos >>

InitSweep ==
    /\ Constructed
    /\ Ready
    /\ clock = 0

NextSweep ==
    \/ SetFactor
    \/ FrameFixed13
    \/ FrameData13
    \/ SweepLine

SpecSweep == InitSweep /\ [][NextSweep]_vars

-----------------------------------------------------------------------------
(* EPD_Class::frame_stage2 *)

\* width in bits of unsigned long / long while frame_stage2() runs: wide
\* enough for the stage 2 durations of the tables (at most 392 ms)
WideBits == 12

WideModulus == 2 ^ WideBits

\* conversion of an unsigned long of modulus m to long (two's complement)
ToLongIn(m, u) == IF u >= m \div 2 THEN u - m ELSE u

\* lines 385-389 in unsigned long arithmetic of modulus m
ElapsedIn(m, ts, te) ==
    IF te > ts
    THEN (te - ts) % m
    ELSE (ts - te + 1 + (m - 1)) % m

\* stage_time -= elapsed, in arithmetic of modulus m
StageTimeAfterIn(m, st, ts, te) == ToLongIn(m, (st - ElapsedIn(m, ts, te)) % m)

\* milliseconds one pass over the display takes
PassMillis == {128, 512}

\* readings of millis() when the sketch starts
WideClockStarts == {0, WideModulus - 128}

\* frame_fixed_timed(fixed_value, stage_time) is entered / returns
FixedTimed(v, t) == << "frame_fixed_timed", << v, t >> >>
Return(f)        == << "return", f >>

\* the two calls of an iteration exchanged
Stage2Calls_swapped(band) == << << 170, band.stage2_t2 >>, << 255, band.stage2_t1 >> >>

\* lines 493-494: the two frame_fixed_timed calls of one iteration
Stage2Calls(band) == << << 255, band.stage2_t1 >>, << 170, band.stage2_t2 >> >>

\* i < this->compensation->stage2_repeat
MorePairs(n, band) == n < band.stage2_repeat

\* the scanlines one pass of frame_fixed_timed() writes, in order
PassLines(sz) == [k \in 1 .. lines_per_display(sz) |-> k - 1]

\* entry of frame_stage2(), up to the first loop test
FrameStage2 ==
    /\ pc = "idle"
    /\ log' = << Call("frame_stage2") >>
    /\ i' = 0
    /\ pc' = IF MorePairs(0, compensation) THEN "stage2_first" ELSE "idle"
    /\ UNCHANGED << driverVars, hwVars, cog_reads, cog_id, broken_panel, dc_state, dc_ok,
                    busy_polls, timedVars, sweepVars, line_call, scan_pos >>

\* line 493 / 494: frame_fixed_timed() is called
Stage2Call ==
    /\ pc \in {"stage2_first", "stage2_second"}
    /\ LET call == Stage2Calls(compensation)[IF pc = "stage2_first" THEN 1 ELSE 2] IN
         /\ fixed_value' = call[1]
         /\ stage_time' = call[2]
         /\ log' = Append(log, FixedTimed(call[1], call[2]))
    /\ passes' = 0
    /\ pc' = IF pc = "stage2_first" THEN "stage2_in_first" ELSE "stage2_in_second"
    /\ UNCHANGED << driverVars, hwVars, beginVars, line, pass_lines, t_start, t_end, clock,
                    sweepVars, line_call, scan_pos >>

\* lines 379-390: one pass of the running frame_fixed_timed() call, which
\* returns to frame_stage2() when stage_time is used up; lines 492-495: the
\* second call follows the first, the loop test follows the second
Stage2Pass ==
    /\ pc \in {"stage2_in_first", "stage2_in_second"}
    /\ t_start' = clock
    /\ pass_lines' = PassLines(size)
    /\ line' = lines_per_display(size)
    /\ line_call' = << Line(lines_per_display(size) - 1, NoData, fixed_value, FALSE,
                            DefaultStage, DefaultBorderByte) >>
    /\ pins' = PinsAfter(pins, line_call')
    /\ spi' = SpiAfter(spi, line_call')
    /\ \E d \in PassMillis : clock' = (clock + d) % WideModulus
    /\ t_end' = clock'
    /\ stage_time' = StageTimeAfterIn(WideModulus, stage_time, t_start', t_end')
    /\ passes' = IF passes < MaxPasses THEN passes + 1 ELSE passes
    /\ IF stage_time' > 0
       THEN /\ pc' = pc
            /\ log' = log
            /\ i' = i
       ELSE /\ log' = Append(log, Return("frame_fixed_timed"))
            /\ IF pc = "stage2_in_first"
               THEN /\ pc' = "stage2_second"
                    /\ i' = i
               ELSE /\ i' = i + 1
                    /\ pc' = IF MorePairs(i + 1, compensation) THEN "stage2_first" ELSE "idle"
    /\ UNCHANGED << driverVars, cog_reads, cog_id, broken_panel, dc_state, dc_ok,
                    busy_polls, fixed_value, sweepVars, scan_pos >>

InitStage2 ==
    /\ Constructed
    /\ Ready
    /\ clock \in WideClockStarts

NextStage2 ==
    \/ SetFactor
    \/ FrameStage2
    \/ Stage2Call
    \/ Stage2Pass

SpecStage2 == InitStage2 /\ [][NextStage2]_vars

-----------------------------------------------------------------------------
(* EPD_Class::line *)

\* bitwise OR and exclusive OR of two naturals
RECURSIVE BitOr(_, _)
BitOr(a, b) ==
    IF a = 0 THEN b
    ELSE IF b = 0 THEN a
    ELSE (IF a % 2 = 1 \/ b % 2 = 1 THEN 1 ELSE 0) + 2 * BitOr(a \div 2, b \div 2)

RECURSIVE BitXor(_, _)
BitXor(a, b) ==
    IF a = 0 THEN b
    ELSE IF b = 0 THEN a
    ELSE (IF a % 2 # b % 2 THEN 1 ELSE 0) + 2 * BitXor(a \div 2, b \div 2)

\* conversion to uint8_t
U8(v) == v % 256

\* the division of C, which truncates toward zero
TruncDiv(a, b) == IF a >= 0 THEN a \div b ELSE -((-a) \div b)

\* widths in bits of int on the platforms the sketch is built for
IntWidths == {16, 32}

\* the encoding made without looking at the stage
OddPixels_stage_blind(x, stage) == BitOr(170, BitAnd(x, 85))

\* lines 561-578: the byte sent for the odd pixels of source byte x
OddPixels(x, stage) ==
    LET pixels == BitAnd(x, 85) IN
    IF stage = "EPD_inverse" THEN BitOr(170, BitXor(pixels, 85))
    ELSE BitOr(170, pixels)

\* the even pixels sent in the order of the source byte
EvenPixels_unreversed(x, stage) ==
    LET masked == BitAnd(x, 170) IN
    IF stage = "EPD_inverse" THEN BitOr(170, BitXor(masked, 170) \div 2)
    ELSE BitOr(170, masked \div 2)

\* lines 600-622: the byte sent for the even pixels of source byte x
EvenPixels(x, stage) ==
    LET masked == BitAnd(x, 170)
        pixels == IF stage = "EPD_inverse" THEN BitOr(170, BitXor(masked, 170) \div 2)
                  ELSE BitOr(170, masked \div 2)
        p1 == BitAnd(pixels \div 64, 3)
        p2 == BitAnd(pixels \div 16, 3)
        p3 == BitAnd(pixels \div 4, 3)
        p4 == BitAnd(pixels, 3)
    IN  U8(BitOr(BitOr(p1, p2 * 4), BitOr(p3 * 16, p4 * 64)))

\* a scan position that is wrapped into the rows of the display
ScanPos_wrapped(w, sz, l) == ((lines_per_display(sz) - l - 1) % lines_per_display(sz)) \div 4

\* line 586: (lines_per_display - line - 1) / 4.  line is a uint16_t: where int
\* has 16 bits the subtraction is made in unsigned int, where it has 32 bits
\* in int
ScanPos(w, sz, l) ==
    IF w = 16
    THEN ((lines_per_display(sz) - l - 1) % 65536) \div 4
    ELSE TruncDiv(lines_per_display(sz) - l - 1, 4)

\* the shift taken to be the pixel number, one bit per row
ScanShift_one_bit(l) == BitAnd(l, 3)

\* line 587: 2 * (line & 0x03)
ScanShift(l) == 2 * BitAnd(l, 3)

\* lines 589-593: scan byte b
ScanByte(pos, b, shift) == IF pos = b THEN U8(3 * 2 ^ shift) ELSE 0

\* the odd pixels sent from the first source byte to the last
OddSource_forward(k, n) == k - 1

\* line 558: the index of the source byte read in iteration k (from 1) of the
\* odd pixel loop over n bytes, b - 1 for b = n down to 1
OddSource(k, n) == n - k

\* lines 552-627: the bytes line() sends with SPI_put_wait
LinePayload(pos, sz, a) ==
    LET n == bytes_per_line(sz) IN
    << 114, a.border_byte >>
    \o [k \in 1 .. n |->
          IF a.data # NoData THEN OddPixels(a.data[OddSource(k, n) + 1], a.stage)
          ELSE a.fixed_value]
    \o [k \in 1 .. bytes_per_scan(sz) |-> ScanByte(pos, k - 1, ScanShift(a.line))]
    \o [k \in 1 .. n |->
          IF a.data # NoData THEN EvenPixels(a.data[k], a.stage)
          ELSE a.fixed_value]

\* SPI.transfer(c)
Transfer(c) == << "SPI.transfer", c >>

\* the reading of the busy pin that ends the loop of SPI_put_wait
BusyLow == << "digitalRead", << "BUSY", LOW >> >>

\* SPI_send(cs_pin, buffer, length), call by call
SendBytes(buf) ==
    << Delay_us(10), Pin("EPD_CS", LOW) >>
    \o [k \in 1 .. Len(buf) |-> Transfer(buf[k])]
    \o << Pin("EPD_CS", HIGH) >>

\* a put that does not wait for the controller
PutWait_no_wait(c) == << Transfer(c) >>

\* SPI_put_wait(c, busy_pin), up to the LOW reading of the busy pin
PutWait(c) == << Transfer(c), BusyLow >>

\* SPI_put_wait for every byte of `bytes`, in order
PutWaitAll(bytes) ==
    LET n == Len(PutWait(0)) IN
    [k \in 1 .. n * Len(bytes) |-> PutWait(bytes[((k - 1) \div n) + 1])[((k - 1) % n) + 1]]

\* the calls line() makes, in order, SPI_on / SPI_send / SPI_put_wait / SPI_off
\* taken apart.  SPI_on stands for SPI.end(), SPI.begin() and the settings,
\* SPI_off for SPI.end().
LineProgram(pos, sz, a) ==
    << SPI_on, Transfer(0), Transfer(0), Delay_us(10) >>
    \o SendBytes(<< 112, 10 >>)
    \o << Delay_us(10), Pin("EPD_CS", LOW) >>
    \o PutWaitAll(LinePayload(pos, sz, a))
    \o << Pin("EPD_CS", HIGH) >>
    \o SendBytes(<< 112, 2 >>)
    \o SendBytes(<< 114, 7 >>)
    \o << Transfer(0), Transfer(0), Delay_us(10), SPI_off >>

\* the calls of a log that change a pin / the state of the bus
WritesPin(e) == e[1] = "digitalWrite"

SwitchesBus(e) == e[1] = "SPI"

\* a buffer of n bytes that starts with x, every byte different from the others
DataOf(x, n) == [k \in 1 .. n |-> (x + k - 1) % 256]

\* line numbers line() is called with: the rows of the display and the sentinel
LineNumbers(sz) == (0 .. (lines_per_display(sz) - 1)) \cup {NoLine}

\* line() calls with a fixed value, and with a buffer for every first byte
LineInputs(sz) ==
    { Line(l, NoData, 170, FALSE, st, DefaultBorderByte) :
        l \in LineNumbers(sz), st \in Stages }
    \cup
    { Line(NoLine, NoData, 0, FALSE, "EPD_normal", bb) : bb \in {255, 170, DefaultBorderByte} }
    \cup
    { Line(5, DataOf(x, bytes_per_line(sz)), 0, pm, st, DefaultBorderByte) :
        x \in 0 .. 255, pm \in BOOLEAN, st \in Stages }

\* line() calls followed byte by byte
BusyInputs(sz) ==
    { Line(0, NoData, 255, FALSE, "EPD_normal", DefaultBorderByte),
      Line(NoLine, NoData, 0, FALSE, "EPD_normal", 255),
      Line(5, DataOf(90, bytes_per_line(sz)), 0, TRUE, "EPD_inverse", DefaultBorderByte) }

\* the sketch has constructed the driver, begin() has succeeded and the sketch
\* is about to call line()
AboutToCallLine ==
    /\ size \in Sizes
    /\ temperature_offset = TemperatureOffset(DefaultTemperature)
    /\ compensation = CompensationFor(size, temperature_offset)
    /\ Ready
    /\ pc = "line_entry"
    /\ log = << Call("EPD_Class") >>
    /\ scan_pos = 0
    /\ cog_reads = << >>
    /\ cog_id = 0
    /\ broken_panel = 0
    /\ dc_state = 0
    /\ dc_ok = FALSE
    /\ i = 0
    /\ busy_polls = 0
    /\ stage_time = 0
    /\ fixed_value = 0
    /\ line = 0
    /\ pass_lines = << >>
    /\ t_start = 0
    /\ t_end = 0
    /\ clock = 0
    /\ passes = 0
    /\ sweep = << >>
    /\ visited = {}

\* line() from its entry to its return, every wait for the controller ended
LineRun ==
    /\ pc = "line_entry"
    /\ \E w \in IntWidths : scan_pos' = ScanPos(w, size, line_call[1][2].line)
    /\ log' = << Call("line") >> \o LineProgram(scan_pos', size, line_call[1][2])
    /\ pins' = PinsAfter(pins, SelectSeq(log', WritesPin))
    /\ spi' = SpiAfter(spi, SelectSeq(log', SwitchesBus))
    /\ pc' = "idle"
    /\ UNCHANGED << driverVars, beginVars, timedVars, sweepVars, line_call >>

InitLine ==
    /\ AboutToCallLine
    /\ line_call \in { << c >> : c \in LineInputs(size) }

NextLine == LineRun

SpecLine == InitLine /\ [][NextLine]_vars

\* entry of line(): lines 586-587 are evaluated with the arguments
LineEnter ==
    /\ pc = "line_entry"
    /\ \E w \in IntWidths : scan_pos' = ScanPos(w, size, line_call[1][2].line)
    /\ log' = << Call("line") >>
    /\ i' = 0
    /\ busy_polls' = 0
    /\ pc' = "line_run"
    /\ UNCHANGED << driverVars, hwVars, cog_reads, cog_id, broken_panel, dc_state, dc_ok,
                    timedVars, sweepVars, line_call >>

\* the next call of line() is made; it is not a poll of the busy pin
LineStep ==
    /\ pc = "line_run"
    /\ i < Len(LineProgram(scan_pos, size, line_call[1][2]))
    /\ LineProgram(scan_pos, size, line_call[1][2])[i + 1] # BusyLow
    /\ Emit(<< LineProgram(scan_pos, size, line_call[1][2])[i + 1] >>)
    /\ i' = i + 1
    /\ busy_polls' = 0
    /\ UNCHANGED << driverVars, pc, cog_reads, cog_id, broken_panel, dc_state, dc_ok,
                    timedVars, sweepVars, line_call, scan_pos >>

\* lines 674-675: one poll of the busy pin in SPI_put_wait.  HIGH readings are
\* counted up to MaxBusyPolls, the LOW reading ends the loop.
LinePoll ==
    /\ pc = "line_run"
    /\ i < Len(LineProgram(scan_pos, size, line_call[1][2]))
    /\ LineProgram(scan_pos, size, line_call[1][2])[i + 1] = BusyLow
    /\ \E level \in Levels :
         IF HIGH = level
         THEN /\ busy_polls' = IF busy_polls < MaxBusyPolls THEN busy_polls + 1 ELSE busy_polls
              /\ Emit(<< >>)
              /\ i' = i
         ELSE /\ busy_polls' = 0
              /\ Emit(<< BusyLow >>)
              /\ i' = i + 1
    /\ UNCHANGED << driverVars, pc, cog_reads, cog_id, broken_panel, dc_state, dc_ok,
                    timedVars, sweepVars, line_call, scan_pos >>

\* line 637: line() returns
LineReturn ==
    /\ pc = "line_run"
    /\ i = Len(LineProgram(scan_pos, size, line_call[1][2]))
    /\ i' = 0
    /\ pc' = "idle"
    /\ UNCHANGED << driverVars, hwVars, log, cog_reads, cog_id, broken_panel, dc_state,
                    dc_ok, busy_polls, timedVars, sweepVars, line_call, scan_pos >>

InitBusy ==
    /\ AboutToCallLine
    /\ line_call \in { << c >> : c \in BusyInputs(size) }

NextBusy ==
    \/ LineEnter
    \/ LineStep
    \/ LinePoll
    \/ LineReturn

SpecBusy == InitBusy /\ [][NextBusy]_vars

-----------------------------------------------------------------------------
(* Reading the log *)

\* the public operation that is running, or that ran last
Op == log[1][2]

\* positions of the log where `events` occurs
Occurrences(lg, events) ==
    { k \in 1..(Len(lg) - Len(events) + 1) :
        /\ lg[k] = events[1]
        /\ SubSeq(lg, k, k + Len(events) - 1) = events }

\* positions of the log that hold event e
Positions(lg, e) == { k \in 1..Len(lg) : lg[k] = e }

\* positions of the log that hold a call of kind `kind`
OfKind(lg, kind) == { k \in 1..Len(lg) : lg[k][1] = kind }

AllLow == \A p \in PinNames : pins[p] = LOW

InBegin == Op = "begin" /\ pc # "idle"

-----------------------------------------------------------------------------
(* C1 *)

\* one charge pump enable cycle as the claim describes it: pump register
\* (0x05) write 0x01, 240 ms, write 0x03, 40 ms, write 0x0f, 40 ms, status poll
C1_Cycle ==
    << SPI_send(<< 112, 5 >>), SPI_send(<< 114, 1 >>), Delay_ms(240),
       SPI_send(<< 112, 5 >>), SPI_send(<< 114, 3 >>), Delay_ms(40),
       SPI_send(<< 112, 5 >>), SPI_send(<< 114, 15 >>), Delay_ms(40),
       SPI_send(<< 112, 15 >>), SPI_read(<< 115, 0 >>) >>

\* number of complete charge pump enable cycles in the log
Cycles == Cardinality(Occurrences(log, C1_Cycle))

\* the cycles follow one another without any other call in between, and the
\* pump register is selected nowhere else
CyclesBackToBack ==
    /\ \A k \in Occurrences(log, C1_Cycle) :
         \/ k + Len(C1_Cycle) \in Occurrences(log, C1_Cycle)
         \/ \A m \in Occurrences(log, C1_Cycle) : m <= k
    /\ Cardinality(Positions(log, SPI_send(<< 112, 5 >>))) = 3 * Cycles

\* the call that follows the last cycle
AfterLastCycle ==
    LET last == CHOOSE k \in Occurrences(log, C1_Cycle) :
                    \A m \in Occurrences(log, C1_Cycle) : m <= k
    IN  SubSeq(log, last + Len(C1_Cycle), Len(log))

\* C1: in begin(), when the ID and panel checks pass and the DC/DC ready bit
\* (0x40) is clear on every poll, exactly 4 charge pump enable cycles are
\* performed, then status is PowerFailure, power_off() runs and begin()
\* returns; a 5th cycle is never started.
C1_FourCyclesThenPowerFailure ==
    /\ (InBegin /\ pc = "begin_pump")
         => /\ Cycles = i
            /\ i < 4
            /\ i > 0 => BitAnd(64, dc_state) = 0
    /\ (InBegin /\ pc = "begin_dc_checked" /\ BitAnd(64, dc_state) = 0)
         => /\ Cycles = 4
            /\ CyclesBackToBack
            /\ ~dc_ok
            /\ AfterLastCycle = << >>
    /\ (InBegin /\ pc = "power_off_pulse" /\ Cycles > 0)
         => /\ Cycles = 4
            /\ BitAnd(64, dc_state) = 0
            /\ status = "EPD_DC_FAILED"
    /\ (Op = "begin" /\ status = "EPD_DC_FAILED")
         => /\ Cycles = 4
            /\ CyclesBackToBack
            /\ pc \in {"power_off_pulse", "idle"}
            /\ SubSeq(AfterLastCycle, 1, 1) = << Call("power_off") >>
            /\ Cardinality(Positions(log, Call("power_off"))) = 1
            /\ pc = "idle" =>
                 SubSeq(log, Len(log) - 3, Len(log)) =
                     << Delay_ms(10), Pin("DISCHARGE", HIGH), Delay_ms(10), Pin("DISCHARGE", LOW) >>
    /\ Op = "begin" => Cycles <= 4

\* begin() has returned with PowerFailure after 4 cycles
C1_Witness ==
    /\ pc = "idle"
    /\ Op = "begin"
    /\ status = "EPD_DC_FAILED"
    /\ Cycles = 4

-----------------------------------------------------------------------------
(* C2 *)

\* output enable register (0x02) written with the disable code 0x40, bus disabled
C2_Finish == << SPI_send(<< 112, 2 >>), SPI_send(<< 114, 64 >>), SPI_off >>

\* C2: in begin(), if the DC/DC ready bit is first reported set on attempt k
\* (1 <= k <= 4), exactly k charge pump enable cycles are performed and no
\* further one, the output enable register is then written with the disable
\* code, the bus is disabled, power_off() is not invoked and begin() returns
\* with status Ok.  (At begin_pump and begin_dc_checked, i counts the polls
\* that found the bit clear.)
C2_ReadyOnAttemptK ==
    /\ (InBegin /\ pc = "begin_pump")
         => /\ Cycles = i
            /\ i > 0 => BitAnd(64, dc_state) = 0
    /\ (InBegin /\ pc = "begin_dc_checked" /\ BitAnd(64, dc_state) = 64)
         => /\ Cycles = i + 1
            /\ Cycles \in 1..4
            /\ CyclesBackToBack
            /\ AfterLastCycle = << >>
            /\ dc_ok
            /\ status = "EPD_OK"
    /\ (Op = "begin" /\ pc = "idle" /\ Cycles > 0 /\ AfterLastCycle = C2_Finish)
         => /\ status = "EPD_OK"
            /\ ~spi
    /\ (Op = "begin" /\ pc = "idle" /\ status = "EPD_OK")
         => /\ Cycles \in 1..4
            /\ CyclesBackToBack
            /\ AfterLastCycle = C2_Finish
            /\ Positions(log, Call("power_off")) = {}
            /\ ~spi

\* begin() has returned with status Ok after the third attempt reported ready
C2_Witness ==
    /\ pc = "idle"
    /\ Op = "begin"
    /\ status = "EPD_OK"
    /\ Cycles = 3
    /\ AfterLastCycle = C2_Finish

-----------------------------------------------------------------------------
(* C3 *)

\* the begin() that is running has read the COG ID
IdRead == InBegin /\ Len(cog_reads) = 2

\* C3: in begin(), the controller ID register is read twice and the decision
\* depends only on the second read: if its low nibble is not 0x02, whatever
\* the first read returned, status becomes UnsupportedController, power_off()
\* runs and begin() returns without issuing the panel integrity check, the
\* channel select write or any charge pump write (no register is written at
\* all); if its low nibble is 0x02 the check passes even when the first read
\* was different.
C3_SecondIdReadDecides ==
    /\ IdRead
         => /\ Cardinality(Occurrences(log, << SPI_read(<< 113, 0 >>), SPI_read(<< 113, 0 >>) >>)) = 1
            /\ Cardinality(Positions(log, SPI_read(<< 113, 0 >>))) = 2
            /\ (BitAnd(15, cog_reads[2]) # 2) <=> (status = "EPD_UNSUPPORTED_COG")
            /\ (BitAnd(15, cog_reads[2]) # 2) => pc = "power_off_pulse"
            /\ (BitAnd(15, cog_reads[2]) = 2) => pc # "begin_cog_id"
    /\ (Op = "begin" /\ status = "EPD_UNSUPPORTED_COG")
         => /\ OfKind(log, "SPI_send") = {}
            /\ Cardinality(OfKind(log, "SPI_read")) = 2
            /\ Cardinality(Positions(log, Call("power_off"))) = 1
            /\ pc \in {"power_off_pulse", "idle"}
            /\ Cycles = 0

\* the ID check has passed although the first read had another low nibble
C3_Witness ==
    /\ IdRead
    /\ pc = "begin_breakage"
    /\ BitAnd(15, cog_reads[1]) # 2
    /\ BitAnd(15, cog_reads[2]) = 2
    /\ status = "EPD_OK"

-----------------------------------------------------------------------------
(* C4 *)

\* the begin() that is running has made the breakage readback
BreakageRead == IdRead /\ pc \notin {"begin_cog_id", "begin_breakage"}

\* C4: in begin(), when the ID check passes and the status readback has bit
\* 0x80 clear, status becomes PanelBroken and begin() returns without writing
\* channel select (register 0x01) or enabling any charge pump (register 0x05);
\* after any begin() that returns with a non-Ok status the reset, panel
\* enable, border, chip select and discharge pins are all LOW.
C4_PanelBrokenAndPinsLow ==
    /\ (BreakageRead /\ BitAnd(15, cog_reads[2]) = 2)
         => /\ (BitAnd(128, broken_panel) = 0) <=> (status = "EPD_PANEL_BROKEN")
            /\ (BitAnd(128, broken_panel) = 0) => pc = "power_off_pulse"
    /\ (Op = "begin" /\ status = "EPD_PANEL_BROKEN")
         => /\ Positions(log, SPI_send(<< 112, 1 >>)) = {}
            /\ Positions(log, SPI_send(<< 112, 5 >>)) = {}
            /\ Cardinality(Positions(log, Call("power_off"))) = 1
            /\ pc \in {"power_off_pulse", "idle"}
    /\ (Op = "begin" /\ pc = "idle" /\ status # "EPD_OK")
         => AllLow

\* begin() has returned with PanelBroken and every control pin is LOW
C4_Witness ==
    /\ Op = "begin"
    /\ pc = "idle"
    /\ status = "EPD_PANEL_BROKEN"
    /\ AllLow

-----------------------------------------------------------------------------
(* C5 *)

\* the step that enters begin()
BeginEntered == pc = "idle" /\ pc' = "begin_wait_busy"

\* the step of end() that follows a DC/DC readback with bit 0x40 clear
EndSeesDcDown == Op = "end" /\ pc = "end_dc_checked" /\ BitAnd(64, dc_state) = 0

\* C5 as claimed: begin() resets status to Ok as its first action, and once
\* status holds a non-Ok value no end(), setFactor(), line(), frame_fixed_13(),
\* frame_data_13() or frame_stage2() changes that value; only begin() does.
C5_FailureStatusTerminal ==
    [][ /\ BeginEntered => status' = "EPD_OK"
        /\ (status # "EPD_OK" /\ status' # status) => BeginEntered ]_vars

\* C5 as amended: begin() resets status to Ok as its first action; once status
\* holds a non-Ok value, setFactor(), line(), frame_fixed_13(), frame_data_13()
\* and frame_stage2() never change it and nothing but begin() sets it back to
\* Ok, but end() overwrites it with PowerFailure when its DC/DC readback has
\* bit 0x40 clear (and leaves it unchanged when the bit is set).
C5_FailureStatusLeftByBeginOrEnd ==
    [][ /\ BeginEntered => status' = "EPD_OK"
        /\ (status # "EPD_OK" /\ status' # status)
             => \/ BeginEntered
                \/ EndSeesDcDown /\ status' = "EPD_DC_FAILED"
        /\ (Op = "end" /\ pc = "end_dc_checked" /\ BitAnd(64, dc_state) = 64)
             => status' = status ]_vars

\* end() has returned after finding the DC/DC ready and a failure status of
\* an earlier begin() is still there
C5_Witness ==
    /\ pc = "idle"
    /\ Op = "end"
    /\ status = "EPD_PANEL_BROKEN"

-----------------------------------------------------------------------------
(* C6 *)

\* latch, output enable off, positive pump off, Vcom pump off, all pumps off,
\* oscillator off, internal discharge on, 120 ms, internal discharge off
C6_Shutdown ==
    << SPI_send(<< 112, 3 >>), SPI_send(<< 114, 1 >>),
       SPI_send(<< 112, 2 >>), SPI_send(<< 114, 5 >>),
       SPI_send(<< 112, 5 >>), SPI_send(<< 114, 14 >>),
       SPI_send(<< 112, 5 >>), SPI_send(<< 114, 2 >>),
       SPI_send(<< 112, 5 >>), SPI_send(<< 114, 0 >>),
       SPI_send(<< 112, 7 >>), SPI_send(<< 114, 13 >>),
       SPI_send(<< 112, 4 >>), SPI_send(<< 114, 131 >>),
       Delay_ms(120),
       SPI_send(<< 112, 4 >>), SPI_send(<< 114, 0 >>) >>

\* the calls end() made between its DC/DC readback and its call of power_off()
BetweenReadbackAndPowerOff ==
    LET r == CHOOSE k \in Positions(log, SPI_read(<< 115, 0 >>)) : TRUE
        o == CHOOSE k \in Positions(log, Call("power_off")) : TRUE
    IN  SubSeq(log, r + 1, o - 1)

C6_InEnd ==
    /\ (Op = "end" /\ pc = "end_dc_checked")
         => /\ Positions(log, Call("power_off")) = {}
            /\ OfKind(log, "SPI_send") = Positions(log, SPI_send(<< 112, 15 >>))
            /\ SubSeq(log, Len(log) - 1, Len(log)) =
                   << SPI_send(<< 112, 15 >>), SPI_read(<< 115, 0 >>) >>
    /\ (Op = "end" /\ pc \in {"power_off_pulse", "idle"})
         => /\ Cardinality(Positions(log, Call("power_off"))) = 1
            /\ Cardinality(Positions(log, SPI_read(<< 115, 0 >>))) = 1
            /\ BetweenReadbackAndPowerOff \in {<< >>, C6_Shutdown}
            /\ Cardinality(Positions(log, Pin("DISCHARGE", HIGH))) = IF pc = "idle" THEN 10 ELSE i
    /\ (Op = "end" /\ pc = "power_off_pulse" /\ BitAnd(64, dc_state) = 0)
         => /\ status = "EPD_DC_FAILED"
            /\ BetweenReadbackAndPowerOff = << >>
            /\ Cardinality(OfKind(log, "SPI_send")) = 1
    /\ (Op = "end" /\ pc = "power_off_pulse" /\ BitAnd(64, dc_state) = 64)
         => /\ BetweenReadbackAndPowerOff = C6_Shutdown
            /\ Cardinality(OfKind(log, "SPI_send")) = 1 + 16

\* C6: in end(), if the DC/DC readback has bit 0x40 clear, status becomes
\* PowerFailure and end() goes straight to power_off(), with none of the
\* latch, output enable, charge pump off, oscillator off or internal discharge
\* writes; if the bit is set those writes are issued in the order latch,
\* output enable off, positive pump off, Vcom pump off, all pumps off,
\* oscillator off, internal discharge on, 120 ms, internal discharge off,
\* status is left unchanged and power_off() runs last.  Either way power_off()
\* runs exactly once per end().
C6_EndChecksDcThenPowersOff ==
    /\ []C6_InEnd
    /\ [][ (Op' = "end" /\ status' # status) => (EndSeesDcDown /\ status' = "EPD_DC_FAILED") ]_vars

\* end() found the DC/DC ready, made the shutdown writes and is half way
\* through the discharge pulses of power_off()
C6_Witness ==
    /\ Op = "end"
    /\ pc = "power_off_pulse"
    /\ BitAnd(64, dc_state) = 64
    /\ BetweenReadbackAndPowerOff = C6_Shutdown
    /\ i = 5

-----------------------------------------------------------------------------
(* C7 *)

IsLineCall(e) == e[1] = "line"

\* the line() calls of the log, in order
LineCalls == SelectSeq(log, IsLineCall)

C7_BorderPulse == << Delay_ms(25), Pin("BORDER", LOW), Delay_ms(250), Pin("BORDER", HIGH) >>

\* end() is past its dummy line / border part
C7_EndPastDummy == Op = "end" /\ pc = "end_dc_checked"

\* C7 as claimed: for panel sizes other than 2.7", end() performs, before the
\* DC/DC re-check, three full frame fixed pattern writes (every scanline of
\* the panel written with the fixed pixel value) with the values 0xff, 0xaa
\* and 0x00 in that order; for the 2.7" size no line is written and the border
\* pin is driven LOW after 25 ms and HIGH after a further 250 ms.
C7_ThreeFullFrames ==
    C7_EndPastDummy =>
        IF size = "EPD_2_7"
        THEN /\ LineCalls = << >>
             /\ SubSeq(log, 2, 5) = C7_BorderPulse
        ELSE /\ Len(LineCalls) = 3 * lines_per_display(size)
             /\ \A f \in 0..2 : \A l \in 0..(lines_per_display(size) - 1) :
                  /\ LineCalls[f * lines_per_display(size) + l + 1][2].line = l
                  /\ LineCalls[f * lines_per_display(size) + l + 1][2].fixed_value
                         = << 255, 170, 0 >>[f + 1]

\* C7 as amended: for panel sizes other than 2.7", end() performs, before the
\* DC/DC re-check, three single dummy line() calls, each with the line number
\* 0x7fff, no data, the pixel value 0x00 and stage normal, and with the border
\* byte 0xff, 0xaa and the default of line() in that order, followed by delays
\* of 40 ms, 200 ms and 25 ms; for the 2.7" size no line is written and the
\* border pin is driven LOW after 25 ms and HIGH after a further 250 ms.
C7_ThreeDummyLines ==
    C7_EndPastDummy =>
        IF size = "EPD_2_7"
        THEN /\ LineCalls = << >>
             /\ SubSeq(log, 2, 5) = C7_BorderPulse
             /\ log[6] = SPI_on
        ELSE /\ Len(LineCalls) = 3
             /\ \A k \in 1..3 :
                  /\ LineCalls[k][2].line = 32767
                  /\ LineCalls[k][2].data = << >>
                  /\ LineCalls[k][2].fixed_value = 0
                  /\ LineCalls[k][2].stage = "EPD_normal"
                  /\ LineCalls[k][2].border_byte = << 255, 170, DefaultBorderByte >>[k]
                  /\ log[2 * k] = LineCalls[k]
             /\ log[3] = Delay_ms(40)
             /\ log[5] = Delay_ms(200)
             /\ log[7] = Delay_ms(25)
             /\ log[8] = SPI_on

\* end() on a 2.0" panel has made its three dummy line() calls
C7_Witness ==
    /\ C7_EndPastDummy
    /\ size = "EPD_2_0"
    /\ Len(LineCalls) = 3

-----------------------------------------------------------------------------
(* C8 *)

\* the step that ends a pass of frame_fixed_timed(): t_end is read and the
\* elapsed time subtracted
PassEnded == Op = "frame_fixed_timed" /\ pc = "fft_line" /\ pc' # "fft_line"

\* C8: in frame_fixed_timed the elapsed time subtracted from the remaining
\* duration after a pass is wraparound safe: when the end reading is smaller
\* than the start reading (the counter wrapped during the pass), the amount
\* subtracted equals (end - start) mod 2^w, as if the counter had not wrapped,
\* and (for a pass shorter than half the range of the counter) the remaining
\* duration does not increase.
C8_ElapsedWrapSafe ==
    [][ (PassEnded /\ t_end' < t_start)
          => /\ stage_time' = ToLong((stage_time - ((t_end' - t_start) % Modulus)) % Modulus)
             /\ ((t_end' - t_start) % Modulus < Modulus \div 2
                   /\ stage_time - ((t_end' - t_start) % Modulus) >= -(Modulus \div 2))
                  => stage_time' <= stage_time ]_vars

-----------------------------------------------------------------------------
(* C9 *)

\* the line numbers 0, 1, ..., n - 1 in ascending order
Ascending(n) == [k \in 1..n |-> k - 1]

\* C9: frame_fixed_timed(fixedValue, minDurationMs) executes at least one full
\* pass for every minDurationMs, 0 and negative values included, a pass being
\* one line() call with fixedValue for each scanline 0, 1, ...,
\* linesPerDisplay - 1 in ascending order; the loop is left only at the end of
\* a complete pass.
C9_AtLeastOneFullPass ==
    /\ (Op = "frame_fixed_timed" /\ pc = "idle")
         => /\ passes >= 1
            /\ pass_lines = Ascending(lines_per_display(size))
    /\ (Op = "frame_fixed_timed" /\ pc = "fft_pass")
         => \/ passes = 0 /\ pass_lines = << >>
            \/ passes >= 1 /\ pass_lines = Ascending(lines_per_display(size))
    /\ (Op = "frame_fixed_timed" /\ pc = "fft_line")
         => /\ line <= lines_per_display(size)
            /\ pass_lines = Ascending(line)
            /\ line > 0 =>
                 /\ line_call[1][2].line = line - 1
                 /\ line_call[1][2].data = << >>
                 /\ line_call[1][2].fixed_value = fixed_value

\* frame_fixed_timed() has returned after a single pass that took no time,
\* called with a negative duration
C9_Witness ==
    /\ Op = "frame_fixed_timed"
    /\ pc = "idle"
    /\ passes = 1
    /\ t_end = t_start
    /\ stage_time < 0
    /\ pass_lines = Ascending(lines_per_display(size))

-----------------------------------------------------------------------------
(* C10 *)

InSweepOp == Op \in {"frame_fixed_13", "frame_data_13"}

\* C10: for frame_fixed_13 and frame_data_13, with the (repeat, step, block,
\* totalLines) of every compensation band of every panel size, stage 1 and
\* stage 3: every line index in [0, totalLines) is passed to line() at least
\* once during the sweep, and on the last repeat pass every visit made at
\* block offset 0 to an in-range position is the zero value settle write
\* (fixed value 0x00, stage normal) and not the real value or the image data.
C10_SweepCoversAndSettles ==
    /\ (InSweepOp /\ pc = "idle")
         => (0 .. (lines_per_display(size) - 1)) \subseteq visited
    /\ (InSweepOp /\ line_call # << >>
          /\ sweep.call_n = sweep.repeat - 1
          /\ sweep.call_offset = 0
          /\ sweep.call_pos \in 0 .. lines_per_display(size))
         => /\ line_call[1][2].line = sweep.call_pos
            /\ line_call[1][2].data = << >>
            /\ line_call[1][2].fixed_value = 0
            /\ line_call[1][2].stage = "EPD_normal"
    /\ InSweepOp
         => /\ sweep.repeat = IF sweep.stage = "EPD_inverse"
                              THEN compensation.stage1_repeat ELSE compensation.stage3_repeat
            /\ sweep.total_lines = lines_per_display(size)
            /\ compensation = CompensationFor(size, temperature_offset)

\* frame_data_13() has returned on a 2.7" panel above 40 degrees, stage 3,
\* after its last call, made on the last repeat pass
C10_Witness ==
    /\ InSweepOp
    /\ pc = "idle"
    /\ Op = "frame_data_13"
    /\ size = "EPD_2_7"
    /\ temperature_offset = 2
    /\ sweep.stage = "EPD_normal"
    /\ sweep.call_n = 3
    /\ (0 .. 175) \subseteq visited

-----------------------------------------------------------------------------
(* C11 *)

\* the calls and returns the claim describes for a band: stage2Repeat times
\* frame_fixed_timed(0xFF, stage2Time1), its return,
\* frame_fixed_timed(0xAA, stage2Time2), its return
C11_Expected(band) ==
    [k \in 1 .. 4 * band.stage2_repeat |->
        IF k % 4 = 1 THEN FixedTimed(255, band.stage2_t1)
        ELSE IF k % 4 = 3 THEN FixedTimed(170, band.stage2_t2)
        ELSE Return("frame_fixed_timed")]

\* C11: frame_stage2() issues exactly stage2Repeat pairs of frame_fixed_timed
\* calls, strictly alternating frame_fixed_timed(0xFF, stage2Time1) and
\* frame_fixed_timed(0xAA, stage2Time2) with the parameters of the active
\* compensation band; a call is made only after the previous one has returned
\* (so the 0xAA frame of a pair never starts before its 0xFF frame has
\* finished), and all the 2 * stage2Repeat calls have been made and have
\* returned when frame_stage2() returns.
C11_Stage2Pairs ==
    Op = "frame_stage2" =>
      LET calls == Tail(log)
          expected == C11_Expected(CompensationFor(size, temperature_offset))
      IN  /\ Len(calls) <= Len(expected)
          /\ calls = SubSeq(expected, 1, Len(calls))
          /\ pc = "idle" => calls = expected
          /\ pc \in {"stage2_in_first", "stage2_in_second"}
               => /\ Len(calls) % 2 = 1
                  /\ calls[Len(calls)][1] = "frame_fixed_timed"
                  /\ calls[Len(calls)][2][1] = fixed_value

\* frame_stage2() has returned on a 2.0" panel below 10 degrees after its four
\* pairs of calls, the last frame having taken more than one pass
C11_Witness ==
    /\ Op = "frame_stage2"
    /\ pc = "idle"
    /\ size = "EPD_2_0"
    /\ temperature_offset = 0
    /\ Len(log) = 1 + 4 * 4
    /\ log[Len(log) - 1] = FixedTimed(170, 392)
    /\ passes > 1

-----------------------------------------------------------------------------
(* Reading the log of a line() call *)

\* the n-th smallest element of a set of positions
NthOf(S, n) == CHOOSE k \in S : Cardinality({ j \in S : j <= k }) = n

IsTransfer(e) == e[1] = "SPI.transfer"

CsLows  == Positions(log, Pin("EPD_CS", LOW))
CsHighs == Positions(log, Pin("EPD_CS", HIGH))

\* the bytes transferred in the n-th chip-select-low frame of the log
BytesOf(events) == [k \in 1 .. Len(events) |-> events[k][2]]

FrameBytes(n) ==
    BytesOf(SelectSeq(SubSeq(log, NthOf(CsLows, n), NthOf(CsHighs, n)), IsTransfer))

\* a line() call has returned; its arguments
LineDone == Op = "line" /\ pc = "idle"

LineArgs == line_call[1][2]

\* the bytes of the data frame, and its scan bytes
Payload == FrameBytes(2)

ScanSent ==
    SubSeq(Payload, 3 + bytes_per_line(size),
           2 + bytes_per_line(size) + bytes_per_scan(size))

\* bit j of v
Bit(v, j) == (v \div (2 ^ j)) % 2

-----------------------------------------------------------------------------
(* C12 *)

\* the (byte index, value) pair of the scan byte the driver sends for line l
\* where int has w bits
C12_ScanOf(w, l) ==
    << ScanPos(w, size, l), ScanByte(ScanPos(w, size, l), ScanPos(w, size, l), ScanShift(l)) >>

\* C12: for every panel size and every lineIndex in [0, linesPerDisplay), the
\* bytesPerScan scan bytes sent by line() contain exactly one non-zero byte,
\* at byte index (linesPerDisplay - lineIndex - 1) / 4, equal to
\* 0x03 << (2 * (lineIndex mod 4)); no other line index of the display gives
\* the same (byte index, value) pair.
C12_OneScanByte ==
    (LineDone /\ LineArgs.line \in 0 .. (lines_per_display(size) - 1)) =>
      LET l == LineArgs.line
          at == (lines_per_display(size) - l - 1) \div 4
          scan == ScanSent
      IN  /\ Len(scan) = bytes_per_scan(size)
          /\ { k \in 1 .. Len(scan) : scan[k] # 0 } = { at + 1 }
          /\ scan[at + 1] = 3 * 2 ^ (2 * (l % 4))
          /\ \A l2 \in (0 .. (lines_per_display(size) - 1)) \ {l}, w \in IntWidths :
               C12_ScanOf(w, l2) # << at, scan[at + 1] >>

\* line() has written the last row of a 2.7" panel: the first scan byte is 0xc0
C12_Witness ==
    /\ LineDone
    /\ size = "EPD_2_7"
    /\ LineArgs.line = 175
    /\ ScanSent[1] = 192

-----------------------------------------------------------------------------
(* C13 *)

\* C13: for every panel size, a line() call with lineIndex = 0x7FFF sends
\* bytesPerScan scan bytes that are all zero: no scan row is selected.
C13_SentinelSelectsNoRow ==
    (LineDone /\ LineArgs.line = NoLine) =>
      /\ Len(ScanSent) = bytes_per_scan(size)
      /\ \A k \in 1 .. Len(ScanSent) : ScanSent[k] = 0

\* the first dummy line of end() has been written on a 2.0" panel
C13_Witness ==
    /\ LineDone
    /\ size = "EPD_2_0"
    /\ LineArgs = Line(NoLine, NoData, 0, FALSE, "EPD_normal", 255)[2]
    /\ Len(ScanSent) = 24

-----------------------------------------------------------------------------
(* C14 *)

\* sent is the odd pixel encoding of x as the claim gives it: 0xAA | (x & 0x55)
\* for stage normal, 0xAA | ((x & 0x55) ^ 0x55) for stage inverse, bit by bit
C14_Odd(sent, x, stage) ==
    /\ sent \in 0 .. 255
    /\ \A j \in 0 .. 3 :
         /\ Bit(sent, 2 * j + 1) = 1
         /\ Bit(sent, 2 * j) = IF stage = "EPD_normal" THEN Bit(x, 2 * j)
                               ELSE 1 - Bit(x, 2 * j)

\* C14: the odd-pixel byte line() sends for source byte x is 0xAA | (x & 0x55)
\* for stage normal and 0xAA | ((x & 0x55) ^ 0x55) for stage inverse; the two
\* encodings of x have the four odd-position bits set and differ in every
\* even-position bit.
C14_OddPixelEncoding ==
    (LineDone /\ LineArgs.data # NoData) =>
      LET n == bytes_per_line(size)
          sent == Payload
      IN
      \A k \in 1 .. n :
        LET x == LineArgs.data[n - k + 1] IN
          /\ C14_Odd(sent[2 + k], x, LineArgs.stage)
          /\ \A j \in 0 .. 3 :
               /\ Bit(OddPixels(x, "EPD_normal"), 2 * j + 1) = 1
               /\ Bit(OddPixels(x, "EPD_inverse"), 2 * j + 1) = 1
               /\ Bit(OddPixels(x, "EPD_normal"), 2 * j)
                    # Bit(OddPixels(x, "EPD_inverse"), 2 * j)

\* a line whose first source byte is 0xff has been written in stage inverse:
\* the last odd-pixel byte is 0xaa
C14_Witness ==
    /\ LineDone
    /\ LineArgs.data # NoData
    /\ LineArgs.stage = "EPD_inverse"
    /\ LineArgs.data[1] = 255
    /\ Payload[2 + bytes_per_line(size)] = 170

-----------------------------------------------------------------------------
(* C18 *)

TransferPositions == { k \in 1 .. Len(log) : IsTransfer(log[k]) }

\* position k of the log is inside a chip-select-low frame
InFrame(k) ==
    Cardinality({ j \in CsLows : j < k }) > Cardinality({ j \in CsHighs : j < k })

\* position k of the log is inside the data frame, the second frame of line()
InDataFrame(k) ==
    /\ InFrame(k)
    /\ Cardinality({ j \in CsLows : j < k }) = 2

\* C18 as stated: after every byte line() transfers inside a chip-select frame
\* (data command, sub-command, border, pixel, scan and output command bytes),
\* no further byte is transferred until the busy pin has been read LOW.
C18_EveryByteWaits ==
    Op = "line" =>
      \A k \in TransferPositions, m \in TransferPositions :
        (InFrame(k) /\ k < m) => \E j \in (k + 1) .. (m - 1) : log[j] = BusyLow

\* C18, amended: after every byte line() transfers inside the data frame (the
\* sub-command 0x72, the border byte, every pixel and scan byte) nothing is
\* done until the busy pin has been read LOW; the bytes of the data command
\* and of the output-to-panel command, sent with SPI_send, and the idle bytes
\* of SPI_on and SPI_off are transferred without any reading of the busy pin.
C18_DataFrameBytesWait ==
    Op = "line" =>
      /\ \A k \in TransferPositions :
           k < Len(log) => (InDataFrame(k) <=> log[k + 1] = BusyLow)
      /\ \A k \in Positions(log, BusyLow) : k - 1 \in TransferPositions
      /\ busy_polls > 0 => (Len(log) \in TransferPositions /\ InDataFrame(Len(log)))

\* line() has transferred the border byte, has read the busy pin HIGH and is
\* polling it
C18_Witness ==
    /\ Op = "line"
    /\ pc = "line_run"
    /\ busy_polls > 0
    /\ InDataFrame(Len(log))
    /\ log[Len(log)] = Transfer(255)
    /\ log[Len(log) - 2] = Transfer(114)

-----------------------------------------------------------------------------
(* C20 *)

\* the 2-bit pairs of v at bit positions 6, 4, 2, 0 moved to 0, 2, 4, 6
C20_PairReversal(v) ==
    ((v \div 64) % 4) + 4 * ((v \div 16) % 4) + 16 * ((v \div 4) % 4) + 64 * (v % 4)

\* 0xAA | ((x & 0xAA) >> 1) for stage normal, 0xAA | (((x & 0xAA) ^ 0xAA) >> 1)
\* for stage inverse, from the bits of x
C20_Unreversed(x, stage) ==
    170 + Bit(IF stage = "EPD_normal" THEN x ELSE 255 - x, 1)
        + 4 * Bit(IF stage = "EPD_normal" THEN x ELSE 255 - x, 3)
        + 16 * Bit(IF stage = "EPD_normal" THEN x ELSE 255 - x, 5)
        + 64 * Bit(IF stage = "EPD_normal" THEN x ELSE 255 - x, 7)

\* sent is the even pixel encoding of x as the claim gives it
C20_Even(sent, x, stage) ==
    /\ sent = C20_PairReversal(C20_Unreversed(x, stage))
    /\ \A j \in 0 .. 3 :
         /\ Bit(sent, 2 * j + 1) = 1
         /\ Bit(sent, 2 * j) = IF stage = "EPD_normal" THEN Bit(x, 7 - 2 * j)
                               ELSE 1 - Bit(x, 7 - 2 * j)

\* C20: the even-pixel byte line() sends for source byte x is the
\* pair-reversal of 0xAA | ((x & 0xAA) >> 1) for stage normal and of
\* 0xAA | (((x & 0xAA) ^ 0xAA) >> 1) for stage inverse; for j in 0..3 output
\* bit 2j+1 is 1 and output bit 2j is bit 7-2j of x (normal) or its
\* complement (inverse).
C20_EvenPixelEncoding ==
    (LineDone /\ LineArgs.data # NoData) =>
      LET n == bytes_per_line(size)
          sent == Payload
      IN
      \A k \in 1 .. n :
        C20_Even(sent[2 + n + bytes_per_scan(size) + k], LineArgs.data[k], LineArgs.stage)

\* a line whose first source byte is 0x80 has been written in stage normal:
\* the first even-pixel byte is 0xab
C20_Witness ==
    /\ LineDone
    /\ LineArgs.data # NoData
    /\ LineArgs.stage = "EPD_normal"
    /\ LineArgs.data[1] = 128
    /\ Payload[2 + bytes_per_line(size) + bytes_per_scan(size) + 1] = 171

-----------------------------------------------------------------------------
(* C19 *)

\* C19: every line() call has the same shape: the bus is enabled; the data
\* command (0x70, 0x0a) is sent in a chip-select frame of its own; one
\* chip-select frame carries 2 + 2 * bytesPerLine + bytesPerScan bytes: 0x72,
\* the border byte, the odd-pixel bytes of source bytes bytesPerLine-1 down to
\* 0, bytesPerScan scan bytes, the even-pixel bytes of source bytes 0 up to
\* bytesPerLine-1; then the output-to-panel command (0x70, 0x02), (0x72, 0x07)
\* is sent and the bus is disabled.  Without a data buffer every pixel byte is
\* fixedValue, whatever the stage.
C19_LineTransaction ==
    LineDone =>
      LET n == bytes_per_line(size)
          m == bytes_per_scan(size)
          a == LineArgs
          sent == Payload
      IN  /\ Positions(log, SPI_on) = {2}
          /\ Positions(log, SPI_off) = {Len(log)}
          /\ ~spi
          /\ Cardinality(CsLows) = 4
          /\ Cardinality(CsHighs) = 4
          /\ \A f \in 1 .. 4 : NthOf(CsLows, f) < NthOf(CsHighs, f)
          /\ \A f \in 1 .. 3 : NthOf(CsHighs, f) < NthOf(CsLows, f + 1)
          /\ \A k \in TransferPositions : InFrame(k) \/ log[k] = Transfer(0)
          /\ FrameBytes(1) = << 112, 10 >>
          /\ FrameBytes(3) = << 112, 2 >>
          /\ FrameBytes(4) = << 114, 7 >>
          /\ Len(sent) = 2 + 2 * n + m
          /\ sent[1] = 114
          /\ sent[2] = a.border_byte
          /\ \A k \in 1 .. n :
               IF a.data # NoData
               THEN /\ C14_Odd(sent[2 + k], a.data[(n - k) + 1], a.stage)
                    /\ C20_Even(sent[2 + n + m + k], a.data[k], a.stage)
               ELSE /\ sent[2 + k] = a.fixed_value
                    /\ sent[2 + n + m + k] = a.fixed_value

\* a line of a 2.7" panel has been written from a buffer: 112 bytes in the
\* data frame
C19_Witness ==
    /\ LineDone
    /\ size = "EPD_2_7"
    /\ LineArgs.data # NoData
    /\ LineArgs.data[1] = 7
    /\ Len(Payload) = 112
    /\ pins["EPD_CS"] = HIGH

-----------------------------------------------------------------------------
(* C15 *)

\* the compensation table of a panel size, the 1.44" table for an unknown size
C15_Table(sz) ==
    CASE sz = "EPD_2_0" -> compensation_200
      [] sz = "EPD_2_7" -> compensation_270
      [] sz \in {"EPD_1_44", "EPD_other"} -> compensation_144

\* the offset the claim gives for temperature t
C15_Offset(t) ==
    CASE t < 10 -> 0
      [] 10 <= t /\ t <= 40 -> 1
      [] t > 40 -> 2

C15_Consistent ==
    /\ temperature_offset \in {0, 1, 2}
    /\ compensation = C15_Table(size)[temperature_offset + 1]
    /\ Op = "EPD_Class" => temperature_offset = 1
    /\ Op = "setFactor" => temperature_offset = C15_Offset(log[2][2])

\* C15: after construction and after any sequence of setFactor(t) calls,
\* temperatureOffset is 0 if the last t < 10, 1 if 10 <= t <= 40, 2 if t > 40
\* (1 when only the constructor called setFactor, with 25), and the active
\* compensation band is the entry at index temperatureOffset of the table of
\* the configured panel size, an unknown size using the 1.44" table; no
\* operation other than setFactor changes the offset or the band.
C15_OffsetAndBand ==
    /\ []C15_Consistent
    /\ [][(temperature_offset' # temperature_offset \/ compensation' # compensation)
            => log' = << Call("setFactor"), log'[2] >>]_vars

\* setFactor(40) has run on a panel of unknown size: offset 1 of the 1.44" table
C15_Witness ==
    /\ Op = "setFactor"
    /\ log[2] = Argument(40)
    /\ size = "EPD_other"
    /\ temperature_offset = 1
    /\ compensation = Band(4, 2, 16,   4, 155, 155,   4, 2, 16)

-----------------------------------------------------------------------------
(* C16 *)

\* the indexes of the image buffer the most recent line() call has read
C16_Reads ==
    IF line_call = << >> \/ line_call[1][2].data = NoData THEN {}
    ELSE { ImageIndex(line_call[1][2].data[1], b, size) : b \in 0 .. (bytes_per_line(size) - 1) }

\* C16: during frame_data_13, for every compensation band of every panel size
\* and both stages, every scanline read from the image buffer has its index
\* in [0, linesPerDisplay): every byte read lies within the first
\* linesPerDisplay * bytesPerLine bytes of the buffer.
C16_ReadsWithinImage ==
    (InSweepOp /\ Op = "frame_data_13") =>
      /\ C16_Reads \subseteq 0 .. (lines_per_display(size) * bytes_per_line(size) - 1)
      /\ (line_call # << >> /\ line_call[1][2].data # NoData)
           => line_call[1][2].data[1] \in 0 .. (lines_per_display(size) - 1)

-----------------------------------------------------------------------------
(* C17 *)

\* the steps of power_off() in the order the claim gives
C17_Expected ==
    << Pin("RESET", LOW), Pin("PANEL_ON", LOW), Pin("BORDER", LOW),
       SPI_off,
       Pin("EPD_CS", LOW) >>
    \o [k \in 1 .. 40 |->
          << Delay_ms(10), Pin("DISCHARGE", HIGH), Delay_ms(10), Pin("DISCHARGE", LOW) >>
            [((k - 1) % 4) + 1]]

\* C17: power_off() performs its steps in this order: reset, panel-enable and
\* border LOW; the bus put in its idle (disabled) state; only then
\* chip-select LOW; then exactly 10 pulses of the discharge pin (10 ms, HIGH,
\* 10 ms, LOW), which is LOW when power_off() returns.  Chip-select is never
\* driven LOW by power_off() while the bus is enabled.
C17_PowerOffOrder ==
    \A p \in Positions(log, Call("power_off")) :
      LET steps == SubSeq(log, p + 1, Len(log)) IN
        /\ Len(steps) >= 5
        /\ Len(steps) <= Len(C17_Expected)
        /\ steps = SubSeq(C17_Expected, 1, Len(steps))
        /\ \A k \in 1 .. Len(steps) :
             steps[k] = Pin("EPD_CS", LOW) => ~SpiAfter(TRUE, SubSeq(steps, 1, k - 1))
        /\ pc = "power_off_pulse" => Len(steps) = 5 + 4 * i
        /\ pc = "idle" =>
             /\ steps = C17_Expected
             /\ Cardinality(Positions(steps, Pin("DISCHARGE", HIGH))) = 10
             /\ pins["DISCHARGE"] = LOW
             /\ pins["EPD_CS"] = LOW
             /\ ~spi

\* an orderly end() has returned: power_off() has run to its last pulse
C17_Witness ==
    /\ Op = "end"
    /\ pc = "idle"
    /\ status = "EPD_OK"
    /\ Positions(log, Call("power_off")) # {}
    /\ log[Len(log)] = Pin("DISCHARGE", LOW)
    /\ Cardinality(Positions(log, Pin("DISCHARGE", HIGH))) = 10

-----------------------------------------------------------------------------
(* C21 *)

\* positions of the log that hold a controller-ID read, a register write or
\* any other SPI command
C21_Commands == OfKind(log, "SPI_send") \cup OfKind(log, "SPI_read")

C21_Waiting == pc = "begin_wait_busy"

\* while begin() polls the busy pin no command has been issued and status is
\* Ok; every command of begin() comes after the reading of LOW; begin() has
\* not read HIGH and gone on; a begin() that has returned has set one of the
\* four states
C21_Quiet ==
    /\ C21_Waiting => (Op = "begin" /\ C21_Commands = {} /\ status = "EPD_OK")
    /\ Op = "begin" =>
         /\ Positions(log, BusyRead(HIGH)) = {}
         /\ \A k \in C21_Commands : \E j \in Positions(log, BusyLow) : j < k
    /\ (Op = "begin" /\ pc = "idle")
         => status \in {"EPD_OK", "EPD_UNSUPPORTED_COG", "EPD_PANEL_BROKEN", "EPD_DC_FAILED"}

\* C21: begin() issues no controller-ID read and no register write while the
\* busy pin reads HIGH after the reset pulse; it polls without any bound: a
\* poll that reads HIGH leaves begin() polling with status Ok, whatever the
\* number of polls made, so that begin() never returns if the pin stays HIGH;
\* if the wait ends (the pin reads LOW) begin() terminates, with status Ok,
\* UnsupportedController, PanelBroken or PowerFailure.
C21_UnboundedBusyWait ==
    /\ []C21_Quiet
    /\ [][C21_Waiting => \/ (C21_Waiting' /\ status' = "EPD_OK" /\ C21_Commands' = {})
                          \/ (pc' = "begin_cog_id" /\ log' = Append(log, BusyLow))]_vars
    /\ (C21_Waiting ~> ~C21_Waiting) => (InBegin ~> pc = "idle")

\* begin() is polling the busy pin and has read HIGH as many times as are
\* counted
C21_Witness ==
    /\ C21_Waiting
    /\ busy_polls = MaxBusyPolls
    /\ log[Len(log)] = Delay_us(10)
    /\ status = "EPD_OK"

=============================================================================
